---- MODULE Spec2Model ----
(***************************************************************************)
(* A model of process_bags.py: the naming, tagging and upload pipeline for *)
(* bag files, and of hard_rename.py.                                       *)
(*                                                                         *)
(* Strings.  Every string the program splits on "_" (file names, path      *)
(* components, "type_name" sources) is modelled as the sequence of its     *)
(* "_"-separated segments, so that str.split("_") is the sequence itself   *)
(* and an f-string "{a}_{b}" is the concatenation a \o b.  A segment is a  *)
(* string without "_"; the extension ".bag" is carried by the last         *)
(* segment of a file name.                                                 *)
(***************************************************************************)
EXTENDS Integers, Sequences, FiniteSets, TLC

VARIABLES
    files,      \* the file system: a set of [dir, name, rec], one per bag file
    dirs,       \* the directories that exist
    bags,       \* rec -> the contents of that recording (its backing store)
    openBags,   \* the recordings whose append-mode store handle is open
    pc,         \* where process_bags is
    cwd,        \* Path.cwd() of the current run
    recursive,  \* IS_RECURSIVE of the current run
    bagfiles,   \* the list of paths globbed at the start of the run
    i,          \* the loop counter of process_bags (1-based, next to process)
    csrf,       \* the CSRF token of the session
    bagpath,    \* the path of the recording being processed (after renaming)
    runs,       \* number of runs started so far
    prev,       \* history: the previous run (cwd, scan mode, how it ended)
    events,     \* history: what the current run did, as [it, op, rec, src, path]
    lost,       \* history: recordings whose file was replaced by a rename
    probe       \* inputs and result of one call of a pure function

vars == <<files, dirs, bags, openBags, pc, cwd, recursive, bagfiles, i, csrf,
          bagpath, runs, prev, events, lost, probe>>

---------------------------------------------------------------------------
(* Bounds of the model *)

\* number of recordings on disk at the start
NumRec == 2
\* number of runs of process_bags
MaxRuns == 2
\* number of directories in a path handed to identify_source
MaxDirLen == 2

---------------------------------------------------------------------------
(* The vehicle catalog *)

\* the keys of vehicle_info, in the order the dictionary iterates them
VehicleTypes == <<"remus", "buoy">>

\* vehicle_info[type] = (unique message type, names); Python's v_info[0] and
\* v_info[1] are v_info[1] and v_info[2] here
vehicle_info ==
    [remus |-> <<"ros_remus/Status", {"shadow", "casper", "bullwinkle"}>>,
     buoy  |-> <<"ros_gwb/ScheduleStatus", {"sugar", "skipper", "shrew"}>>]

FAILED == 0
DIRECTORY == 1
CONTENT == 2

post_folder == <<"uploaded">>

---------------------------------------------------------------------------
(* identify_date *)

\* time.localtime(secs) in a zone without offset to UTC, for secs >= 0: the
\* civil date of the day number, the time of day, the day of the week
\* (Monday is 0; day 0 was a Thursday), the day of the year and no DST
DaysFromCivil(y, m, d) ==
    LET yy == IF m <= 2 THEN y - 1 ELSE y
        era == yy \div 400
        yoe == yy - era * 400
        doy == (153 * (IF m > 2 THEN m - 3 ELSE m + 9) + 2) \div 5 + d - 1
        doe == yoe * 365 + yoe \div 4 - yoe \div 100 + doy
    IN  era * 146097 + doe - 719468

localtime(secs) ==
    LET days == secs \div 86400
        rem == secs % 86400
        z == days + 719468
        era == z \div 146097
        doe == z - era * 146097
        yoe == (doe - doe \div 1460 + doe \div 36524 - doe \div 146096) \div 365
        doy == doe - (365 * yoe + yoe \div 4 - yoe \div 100)
        mp == (5 * doy + 2) \div 153
        d == doy - (153 * mp + 2) \div 5 + 1
        m == IF mp < 10 THEN mp + 3 ELSE mp - 9
        y == yoe + era * 400 + (IF m <= 2 THEN 1 ELSE 0)
    IN  <<y, m, d, rem \div 3600, (rem % 3600) \div 60, rem % 60,
          (days + 3) % 7, days - DaysFromCivil(y, 1, 1) + 1, 0>>

\* the loop of identify_date over a struct_time st (9 fields), from index k
\* (0-based, as enumerate counts): append the value, stop after i == 6
RECURSIVE DateLoop(_, _, _)
DateLoop(st, k, date) ==
    IF k >= Len(st) THEN date
    ELSE LET d == date \o <<st[k + 1]>>
         IN  IF k = 6 THEN d ELSE DateLoop(st, k + 1, d)

\* the values identify_date writes, in order, each followed by "-"
DateFields(st) == DateLoop(st, 0, <<>>)

\* "-".join of the values: date.rstrip("-")
RECURSIVE JoinDash(_)
JoinDash(fs) ==
    IF fs = <<>> THEN ""
    ELSE IF Len(fs) = 1 THEN ToString(fs[1])
    ELSE ToString(fs[1]) \o "-" \o JoinDash(Tail(fs))

\* identify_date(bag), given time.localtime(bag.get_start_time())
identify_date(st) == JoinDash(DateFields(st))

---------------------------------------------------------------------------
(* is_rename_necessary *)

\* a variant that accepts a name of any type's list after a catalog type
is_rename_necessary_any_name(filename) ==
    LET components == filename
    IN  IF /\ 2 < Len(components) /\ Len(components) < 5
           /\ components[1] \in DOMAIN vehicle_info
           /\ \E t \in DOMAIN vehicle_info : components[2] \in vehicle_info[t][2]
        THEN FALSE
        ELSE TRUE

\* is_rename_necessary(filename): components is filename.split("_")
is_rename_necessary(filename) ==
    LET components == filename
    IN  IF /\ 2 < Len(components) /\ Len(components) < 5
           /\ components[1] \in DOMAIN vehicle_info
           /\ components[2] \in vehicle_info[components[1]][2]
        THEN FALSE
        ELSE TRUE

---------------------------------------------------------------------------
(* identify_source *)

\* "parent_folder in v_info[1]": a path component equals one of the names
InNames(parent_folder, names) ==
    Len(parent_folder) = 1 /\ parent_folder[1] \in names

\* the inner loop over vehicle_info.items() for one path component
RECURSIVE DirTypeLoop(_, _, _)
DirTypeLoop(parent_folder, t, acc) ==
    IF t > Len(VehicleTypes) THEN acc
    ELSE LET v_type == VehicleTypes[t]
             hit == InNames(parent_folder, vehicle_info[v_type][2])
         IN  DirTypeLoop(parent_folder, t + 1,
                 IF hit THEN [source |-> <<v_type>> \o parent_folder,
                              status |-> DIRECTORY]
                        ELSE acc)

\* the outer loop over bag.parts
RECURSIVE DirLoop(_, _, _)
DirLoop(parts, p, acc) ==
    IF p > Len(parts) THEN acc
    ELSE DirLoop(parts, p + 1, DirTypeLoop(parts[p], 1, acc))

\* a variant of the content loop that stops at the first type that matches
RECURSIVE ContentLoop_first_wins(_, _, _)
ContentLoop_first_wins(msg_types, t, acc) ==
    IF t > Len(VehicleTypes) THEN acc
    ELSE LET v_type == VehicleTypes[t]
         IN  IF vehicle_info[v_type][1] \in msg_types
             THEN [source |-> <<v_type, "unknownname">>, status |-> CONTENT]
             ELSE ContentLoop_first_wins(msg_types, t + 1, acc)

\* the loop over vehicle_info.items() of the content strategy
RECURSIVE ContentLoop(_, _, _)
ContentLoop(msg_types, t, acc) ==
    IF t > Len(VehicleTypes) THEN acc
    ELSE LET v_type == VehicleTypes[t]
         IN  ContentLoop(msg_types, t + 1,
                 IF vehicle_info[v_type][1] \in msg_types
                 THEN [source |-> <<v_type, "unknownname">>, status |-> CONTENT]
                 ELSE acc)

NoSource == [source |-> <<>>, status |-> FAILED]

\* a variant that tries the contents first and the directories second
identify_source_content_first(parts, msg_types) ==
    LET byContent == ContentLoop(msg_types, 1, NoSource)
        byDir == IF byContent.status = FAILED
                 THEN DirLoop(parts, 1, byContent)
                 ELSE byContent
        final == IF byDir.status = FAILED
                 THEN [source |-> <<"unknowntype", "unknownname">>,
                       status |-> FAILED]
                 ELSE byDir
    IN  [source |-> final.source, status |-> final.status, opened |-> TRUE]

\* identify_source(bag): parts is bag.parts, msg_types the message types of
\* the bag; opened tells whether the bag was opened to read them
identify_source(parts, msg_types) ==
    LET byDir == DirLoop(parts, 1, NoSource)
        byContent == IF byDir.status = FAILED
                     THEN ContentLoop(msg_types, 1, byDir)
                     ELSE byDir
        final == IF byContent.status = FAILED
                 THEN [source |-> <<"unknowntype", "unknownname">>,
                       status |-> FAILED]
                 ELSE byContent
    IN  [source |-> final.source, status |-> final.status,
         opened |-> (byDir.status = FAILED)]

---------------------------------------------------------------------------
(* Paths and the file system *)

\* bag.parts: the components of the directory, then the file name
Parts(p) == p.dir \o <<p.name>>

PathOf(f) == [dir |-> f.dir, name |-> f.name]

Exists(F, p) == \E f \in F : PathOf(f) = p

\* the recording stored at path p
RecAt(F, p) == (CHOOSE f \in F : PathOf(f) = p).rec

\* Path.rename(dst) on POSIX: the file moves to dst; a file that is already
\* at dst is silently replaced
Rename(F, src, dst) ==
    IF src = dst THEN F
    ELSE {f \in F : PathOf(f) # src /\ PathOf(f) # dst}
         \cup {[dir |-> dst.dir, name |-> dst.name, rec |-> RecAt(F, src)]}

\* the recordings a rename of src to dst destroys
Replaced(F, src, dst) ==
    IF src = dst THEN {}
    ELSE {f.rec : f \in {g \in F : PathOf(g) = dst}}

IsPrefix(s, t) == Len(s) <= Len(t) /\ SubSeq(t, 1, Len(s)) = s

\* thisdir.glob("**/*.bag") when recursive, thisdir.glob("*.bag") otherwise:
\* the set of paths found (every file of the model is a .bag file)
Glob(F, thisdir, rec_flag) ==
    {PathOf(f) : f \in {g \in F : IF rec_flag THEN IsPrefix(thisdir, g.dir)
                                             ELSE g.dir = thisdir}}

\* the orders in which list(glob) can return a set of paths: the files of a
\* directory come before the files of the directories below it, in no
\* particular order otherwise
Orders(S) ==
    {q \in [1..Cardinality(S) -> S] :
        \A a, b \in 1..Cardinality(S) :
            /\ a # b => q[a] # q[b]
            /\ (q[a].dir # q[b].dir /\ IsPrefix(q[a].dir, q[b].dir)) => a < b}

---------------------------------------------------------------------------
(* Recordings *)

\* the recording id of a bag file that Bag(path, mode="a") created empty
EmptyRec == 0

\* a bag: t0 and end are get_start_time() and get_end_time() as (seconds,
\* nanoseconds), start is time.localtime(get_start_time()), status and
\* metadata are the records of the topics /status and /metadata
EmptyBag == [t0 |-> <<0, 0>>, start |-> <<>>, end |-> <<0, 0>>,
             msg_types |-> {}, status |-> <<>>, metadata |-> <<>>]

BagOf(B, r) == IF r = EmptyRec THEN EmptyBag ELSE B[r]

\* a bag without messages has no start time: get_start_time() raises
HasMessages(bag) == bag.start # <<>>

---------------------------------------------------------------------------
(* standard_rename *)

\* a variant whose timestamp is joined with "_" like the rest of the name
BuiltName_underscored(source, st) ==
    LET fs == DateFields(st)
    IN  source \o [k \in 1..Len(fs) |->
                      IF k = Len(fs) THEN ToString(fs[k]) \o ".bag"
                                     ELSE ToString(fs[k])]

\* f"{source}_{identify_date(Bag(bag))}.bag"
BuiltName(source, st) == source \o <<identify_date(st) \o ".bag">>

\* a variant that lets a recording identified by its contents through
ToUpload_content_eligible(status) ==
    IF status = FAILED THEN FALSE ELSE TRUE

\* to_upload as standard_rename sets it from status
ToUpload(status) ==
    IF status = FAILED THEN FALSE
    ELSE IF status = DIRECTORY THEN TRUE
    ELSE IF status = CONTENT THEN FALSE
    ELSE TRUE

\* a variant that renames only the recordings it finds eligible
standard_rename_eligible_only(F, B, bag) ==
    IF is_rename_necessary(bag.name)
    THEN LET content == BagOf(B, RecAt(F, bag))
             id == identify_source(Parts(bag), content.msg_types)
             built_name == BuiltName(id.source, content.start)
             newpath == [dir |-> bag.dir, name |-> built_name]
         IN  IF ToUpload(id.status)
             THEN [to_upload |-> TRUE, newpath |-> newpath, renamed |-> TRUE,
                   status |-> id.status, opened |-> id.opened]
             ELSE [to_upload |-> FALSE, newpath |-> bag, renamed |-> FALSE,
                   status |-> id.status, opened |-> id.opened]
    ELSE [to_upload |-> TRUE, newpath |-> bag, renamed |-> FALSE,
          status |-> DIRECTORY, opened |-> FALSE]

\* a variant that does not ask the validator and renames every recording
standard_rename_always(F, B, bag) ==
    LET content == BagOf(B, RecAt(F, bag))
        id == identify_source(Parts(bag), content.msg_types)
        built_name == BuiltName(id.source, content.start)
        newpath == [dir |-> bag.dir, name |-> built_name]
    IN  [to_upload |-> ToUpload(id.status), newpath |-> newpath,
         renamed |-> TRUE, status |-> id.status, opened |-> id.opened]

\* standard_rename(bag) on file system F with bag contents B: the verdict,
\* the new path, and what it did
standard_rename(F, B, bag) ==
    IF is_rename_necessary(bag.name)
    THEN LET content == BagOf(B, RecAt(F, bag))
             id == identify_source(Parts(bag), content.msg_types)
             built_name == BuiltName(id.source, content.start)
             newpath == [dir |-> bag.dir, name |-> built_name]
         IN  [to_upload |-> ToUpload(id.status), newpath |-> newpath,
              renamed |-> TRUE, status |-> id.status, opened |-> id.opened]
    ELSE [to_upload |-> TRUE, newpath |-> bag, renamed |-> FALSE,
          status |-> DIRECTORY, opened |-> FALSE]

---------------------------------------------------------------------------
(* generate_tags and tag_this_bag *)

\* max(depth_list) over the samples of the /status topic
RECURSIVE max_depth(_)
max_depth(samples) ==
    IF Len(samples) = 1 THEN samples[1].depth
    ELSE LET m == max_depth(Tail(samples))
         IN  IF samples[1].depth > m THEN samples[1].depth ELSE m

\* generate_tags(bag) for the bag named bagname: raised tells that an
\* exception left the function (bag_name_list[1] on a name without "_",
\* get_start_time() on a bag without messages, max() of an empty list);
\* tags is the dictionary as the sequence of its (key, value) items
generate_tags(bagname, bag) ==
    LET bag_name_list == bagname
        remus == bag_name_list[1] = "remus"
    IN  IF Len(bag_name_list) < 2 \/ ~HasMessages(bag)
           \/ (remus /\ bag.status = <<>>)
        THEN [raised |-> TRUE, tags |-> <<>>]
        ELSE [raised |-> FALSE,
              tags |->
                  <<  <<"vehicle", bag_name_list[1]>>,
                      <<"name", bag_name_list[2]>>,
                      <<"date/time", identify_date(bag.start)>>,
                      \* tags["date/time"][:4]: the year of a local start
                      \* time has four digits
                      <<"year", ToString(bag.start[1])>>  >>
                  \o (IF remus
                      THEN << <<"mission state", bag.status[1].in_mission>>,
                              <<"max depth", max_depth(bag.status)>>,
                              <<"mission modes",
                                {bag.status[k].mission_mode :
                                     k \in 1..Len(bag.status)}>> >>
                      ELSE <<>>)]

NsecPerSec == 1000000000

\* a time (seconds, nanoseconds) is before another
Earlier(a, b) == a[1] < b[1] \/ (a[1] = b[1] /\ a[2] < b[2])

\* genpy.Time(secs, nsecs) with an integral secs: int(secs), int(nsecs);
\* frac is a float of less than one second, held as its nanoseconds, so
\* int(frac) is frac \div NsecPerSec
Time(secs, frac) == <<secs, frac \div NsecPerSec>>

\* tag_this_bag(bag, tags): the bag after bag.write("/metadata", tag_msg,
\* Time(int(msg_sec), msg_nsec)) with msg_sec, msg_nsec the whole seconds
\* and the fraction of divmod(bag.get_end_time(), 1); a record stamped
\* before the first or after the last record moves the start or end time
tag_this_bag(bag, tags) ==
    LET stamp == Time(bag.end[1], bag.end[2])
        t0 == IF Earlier(stamp, bag.t0) THEN stamp ELSE bag.t0
    IN  [bag EXCEPT
            !.metadata = Append(@, [topic |-> "/metadata", data |-> tags,
                                    t |-> stamp]),
            !.msg_types = @ \cup {"std_msgs/String"},
            !.t0 = t0,
            !.start = localtime(t0[1]),
            !.end = IF Earlier(bag.end, stamp) THEN stamp ELSE bag.end]

---------------------------------------------------------------------------
(* The initial file system *)

Recs == 1..NumRec

\* two start times, one second apart, and time.localtime() of them
Epoch0 == 1704067200
Epoch1 == 1704067201
T0 == <<2024, 1, 1, 0, 0, 0, 0, 1, 0>>
T1 == <<2024, 1, 1, 0, 0, 1, 0, 1, 0>>

StatusSample == [in_mission |-> TRUE, depth |-> 5, mission_mode |-> 1]

\* the recordings of the model: of a remus, of a buoy, and of neither
Profiles ==
    {[t0 |-> <<Epoch0, 0>>, start |-> T0, end |-> <<Epoch0 + 60, 500000000>>,
      msg_types |-> {vehicle_info["remus"][1]},
      status |-> <<StatusSample>>, metadata |-> <<>>],
     [t0 |-> <<Epoch0, 0>>, start |-> T0, end |-> <<Epoch0 + 60, 0>>,
      msg_types |-> {vehicle_info["buoy"][1]},
      status |-> <<>>, metadata |-> <<>>],
     [t0 |-> <<Epoch1, 0>>, start |-> T1, end |-> <<Epoch1 + 60, 0>>,
      msg_types |-> {"std_msgs/String"},
      status |-> <<>>, metadata |-> <<>>]}

\* the working directories: one without and one with a vehicle's name
DataDir == << <<"data">> >>
ShadowDir == << <<"data">>, <<"shadow">> >>
InitDirs == {DataDir, ShadowDir}

RawName(r) == <<"rec" \o ToString(r) \o ".bag">>

\* the remus, buoy and other recording of Profiles
ProfileOf(kind) ==
    CHOOSE b \in Profiles :
        IF kind = "other" THEN b.msg_types = {"std_msgs/String"}
        ELSE vehicle_info[kind][1] \in b.msg_types

\* what a recording can be at the start: where it is, how it is named (a raw
\* name; the name this program builds for a "shadow" recording started at
\* T0; a valid name with a mission label) and what it holds
Candidates(r) ==
    <<[dir |-> ShadowDir, name |-> RawName(r), bag |-> ProfileOf("remus")],
      [dir |-> ShadowDir, name |-> RawName(r), bag |-> ProfileOf("buoy")],
      [dir |-> DataDir, name |-> RawName(r), bag |-> ProfileOf("buoy")],
      [dir |-> DataDir, name |-> RawName(r), bag |-> ProfileOf("other")],
      [dir |-> ShadowDir, name |-> BuiltName(<<"remus", "shadow">>, T0),
       bag |-> ProfileOf("remus")],
      [dir |-> DataDir,
       name |-> <<"remus", "casper", "msn", "20240101-000000.bag">>,
       bag |-> ProfileOf("remus")]>>

NoPath == [dir |-> <<>>, name |-> <<>>]

\* an entry of the history: pass `it` of the loop did `op` to recording r,
\* found at path src and left at path p, while the local variable csrf of
\* process_bags held the token csrf
Event(op, r, src, p) ==
    [it |-> i - 1, op |-> op, rec |-> r, src |-> src, path |-> p,
     csrf |-> csrf]

\* the current run moved every recording it found eligible into post_folder
ArchivedAll ==
    \A e \in events :
        e.op = "eligible" => \E m \in events : m.it = e.it /\ m.op = "move"

NoRun == [ran |-> FALSE, cwd |-> <<>>, recursive |-> FALSE, finished |-> FALSE,
          archived |-> FALSE]

Init ==
    \* each recording is one of the candidates, at a path of its own; the
    \* recordings are numbered in the order of their candidates
    /\ \E c \in [Recs -> 1..Len(Candidates(1))] :
           LET at(r) == Candidates(r)[c[r]]
           IN  /\ \A r1, r2 \in Recs : r1 < r2 => c[r1] <= c[r2]
               /\ \A r1, r2 \in Recs :
                      r1 # r2 => <<at(r1).dir, at(r1).name>>
                                     # <<at(r2).dir, at(r2).name>>
               /\ files = {[dir |-> at(r).dir, name |-> at(r).name, rec |-> r] :
                               r \in Recs}
               /\ bags = [r \in Recs |-> at(r).bag]
    /\ dirs = InitDirs
    /\ openBags = {}
    /\ pc = "idle"
    /\ cwd = DataDir
    /\ recursive = FALSE
    /\ bagfiles = <<>>
    /\ i = 1
    /\ csrf = 0
    /\ bagpath = NoPath
    /\ runs = 0
    /\ prev = NoRun
    /\ events = {}
    /\ lost = {}
    /\ probe = <<>>

---------------------------------------------------------------------------
(* process_bags *)

\* process_bags starts: Path.cwd(), the glob, and the session is created
StartRun(thisdir, rec_flag) ==
    /\ pc \in {"idle", "done", "aborted"}
    /\ runs < MaxRuns
    /\ runs' = runs + 1
    /\ cwd' = thisdir
    /\ recursive' = rec_flag
    /\ bagfiles' \in Orders(Glob(files, thisdir, rec_flag))
    /\ i' = 1
    /\ csrf' = 0
    /\ bagpath' = NoPath
    /\ pc' = "token"
    /\ prev' = [ran |-> runs > 0, cwd |-> cwd, recursive |-> recursive,
                finished |-> pc = "done", archived |-> ArchivedAll]
    /\ events' = {}
    /\ UNCHANGED <<files, dirs, bags, openBags, lost, probe>>

\* get_csrf_token returns the token of this session
TokenOk ==
    /\ pc = "token"
    /\ csrf' = runs
    /\ pc' = "loop"
    /\ UNCHANGED <<files, dirs, bags, openBags, cwd, recursive, bagfiles, i,
                   bagpath, runs, prev, events, lost, probe>>

\* a variant in which the run goes on without a token
TokenFails_run_goes_on ==
    /\ pc = "token"
    /\ pc' = "loop"
    /\ UNCHANGED <<files, dirs, bags, openBags, cwd, recursive, bagfiles, i,
                   csrf, bagpath, runs, prev, events, lost, probe>>

\* get_csrf_token raises (no connection, no token in the page): the
\* exception leaves process_bags
TokenFails ==
    /\ pc = "token"
    /\ pc' = "aborted"
    /\ UNCHANGED <<files, dirs, bags, openBags, cwd, recursive, bagfiles, i,
                   csrf, bagpath, runs, prev, events, lost, probe>>

\* "bagpath.parts[-1] != post_folder": the guard against uploaded bags
NotInPostFolder(p) == Parts(p)[Len(Parts(p))] # post_folder

\* one pass of the for loop up to the verdict of standard_rename
Evaluate ==
    /\ pc = "loop"
    /\ i <= Len(bagfiles)
    /\ i' = i + 1
    /\ LET p == bagfiles[i]
           r == IF Exists(files, p) THEN RecAt(files, p) ELSE EmptyRec
           ev(op, q) == [it |-> i, op |-> op, rec |-> r, src |-> p, path |-> q,
                         csrf |-> csrf]
       IN  IF NotInPostFolder(p)
           THEN LET res == standard_rename(files, bags, p)
                IN  /\ files' = IF res.renamed
                                THEN Rename(files, p, res.newpath)
                                ELSE files
                    /\ lost' = IF res.renamed
                               THEN lost \cup (Replaced(files, p, res.newpath)
                                               \ {EmptyRec})
                               ELSE lost
                    /\ bagpath' = res.newpath
                    /\ events' = events
                          \cup (IF res.renamed
                                THEN {ev("rename", res.newpath)} ELSE {})
                          \cup {ev(IF res.to_upload THEN "eligible" ELSE "skip",
                                   res.newpath)}
                    /\ pc' = IF res.to_upload THEN "open" ELSE "loop"
           ELSE /\ events' = events \cup {ev("ignore", p)}
                /\ pc' = "loop"
                /\ UNCHANGED <<files, lost, bagpath>>
    /\ UNCHANGED <<dirs, bags, openBags, cwd, recursive, bagfiles, csrf, runs,
                   prev, probe>>

\* bag = Bag(bagpath, mode="a"): opens the file, or creates an empty bag
\* file when there is none at bagpath
OpenBag ==
    /\ pc = "open"
    /\ IF Exists(files, bagpath)
       THEN /\ openBags' = openBags \cup {RecAt(files, bagpath)}
            /\ files' = files
       ELSE /\ openBags' = openBags \cup {EmptyRec}
            /\ files' = files \cup {[dir |-> bagpath.dir, name |-> bagpath.name,
                                     rec |-> EmptyRec]}
    /\ pc' = "tag"
    /\ UNCHANGED <<dirs, bags, cwd, recursive, bagfiles, i, csrf, bagpath,
                   runs, prev, events, lost, probe>>

\* the try block: generate_tags, tag_this_bag and bag.close() succeed
TagOk ==
    /\ pc = "tag"
    /\ LET r == RecAt(files, bagpath)
           g == generate_tags(bagpath.name, BagOf(bags, r))
       IN  /\ ~g.raised
           /\ bags' = [bags EXCEPT ![r] = tag_this_bag(@, g.tags)]
           /\ openBags' = openBags \ {r}
           /\ events' = events \cup {Event("tag", r, bagpath, bagpath)}
    /\ pc' = "post"
    /\ UNCHANGED <<files, dirs, cwd, recursive, bagfiles, i, csrf, bagpath,
                   runs, prev, lost, probe>>

\* a variant whose except block does not close the bag
TagFails_no_close(wr) ==
    /\ pc = "tag"
    /\ LET r == RecAt(files, bagpath)
           g == generate_tags(bagpath.name, BagOf(bags, r))
       IN  /\ g.raised \/ wr
           /\ events' = events \cup {Event("tagfail", r, bagpath, bagpath)}
    /\ pc' = "loop"
    /\ UNCHANGED <<files, dirs, bags, openBags, cwd, recursive, bagfiles, i,
                   csrf, bagpath, runs, prev, lost, probe>>

\* the except block: generate_tags raised, or (wr) bag.write raised; the bag
\* is closed and the loop continues
TagFails(wr) ==
    /\ pc = "tag"
    /\ LET r == RecAt(files, bagpath)
           g == generate_tags(bagpath.name, BagOf(bags, r))
       IN  /\ g.raised \/ wr
           /\ openBags' = openBags \ {r}
           /\ events' = events \cup {Event("tagfail", r, bagpath, bagpath)}
    /\ pc' = "loop"
    /\ UNCHANGED <<files, dirs, bags, cwd, recursive, bagfiles, i, csrf,
                   bagpath, runs, prev, lost, probe>>

\* a variant that moves the file whatever the status is
Post_always_moves(post_status) ==
    /\ pc = "post"
    /\ LET r == RecAt(files, bagpath)
       IN  events' = events \cup {Event(IF post_status = "200" THEN "upload"
                                        ELSE "uploadfail", r, bagpath, bagpath)}
    /\ pc' = "move"
    /\ UNCHANGED <<files, dirs, bags, openBags, cwd, recursive, bagfiles, i,
                   csrf, bagpath, runs, prev, lost, probe>>

\* prep_and_post returns post_status
Post(post_status) ==
    /\ pc = "post"
    /\ LET r == RecAt(files, bagpath)
       IN  IF post_status = "200"
           THEN /\ events' = events \cup {Event("upload", r, bagpath, bagpath)}
                /\ pc' = "move"
           ELSE /\ events' = events \cup {Event("uploadfail", r, bagpath, bagpath)}
                /\ pc' = "loop"
    /\ UNCHANGED <<files, dirs, bags, openBags, cwd, recursive, bagfiles, i,
                   csrf, bagpath, runs, prev, lost, probe>>

\* s.post raises (the connection fails): the exception leaves process_bags
PostRaises ==
    /\ pc = "post"
    /\ events' = events \cup {Event("uploadraise", RecAt(files, bagpath),
                                 bagpath, bagpath)}
    /\ pc' = "aborted"
    /\ UNCHANGED <<files, dirs, bags, openBags, cwd, recursive, bagfiles, i,
                   csrf, bagpath, runs, prev, lost, probe>>

\* after a 200: mkdir(exist_ok=True) and the move into post_folder
Move ==
    /\ pc = "move"
    /\ LET target == [dir |-> bagpath.dir \o <<post_folder>>,
                      name |-> bagpath.name]
           r == RecAt(files, bagpath)
       IN  /\ dirs' = dirs \cup {target.dir}
           /\ files' = Rename(files, bagpath, target)
           /\ lost' = lost \cup (Replaced(files, bagpath, target) \ {EmptyRec})
           /\ events' = events \cup {Event("move", r, bagpath, target)}
    /\ pc' = "loop"
    /\ UNCHANGED <<bags, openBags, cwd, recursive, bagfiles, i, csrf, bagpath,
                   runs, prev, probe>>

\* the for loop is exhausted: process_bags returns
Finish ==
    /\ pc = "loop"
    /\ i > Len(bagfiles)
    /\ pc' = "done"
    /\ UNCHANGED <<files, dirs, bags, openBags, cwd, recursive, bagfiles, i,
                   csrf, bagpath, runs, prev, events, lost, probe>>

PostStatuses == {"200", "500"}

Next ==
    \/ \E d \in InitDirs, r \in BOOLEAN : StartRun(d, r)
    \/ TokenOk
    \/ TokenFails
    \/ Evaluate
    \/ OpenBag
    \/ TagOk
    \/ \E wr \in BOOLEAN : TagFails(wr)
    \/ \E s \in PostStatuses : Post(s)
    \/ PostRaises
    \/ Move
    \/ Finish

Spec == Init /\ [][Next]_vars

TypeOK ==
    /\ pc \in {"idle", "token", "loop", "open", "tag", "post", "move", "done",
               "aborted"}
    /\ \A f, g \in files : PathOf(f) = PathOf(g) => f = g
    /\ \A f \in files : f.dir \in dirs
    \* a path that standard_rename is to rename exists
    /\ (pc = "loop" /\ i <= Len(bagfiles) /\ is_rename_necessary(bagfiles[i].name))
           => Exists(files, bagfiles[i])

---------------------------------------------------------------------------
(* Properties of process_bags *)

\* 'uploaded' is a directory segment of the path
InPostFolder(p) == \E k \in 1..Len(p.dir) : p.dir[k] = post_folder

UploadOps == {"upload", "uploadfail", "uploadraise"}

\* C1: a run that follows a finished run on the same directory and scan
\* mode, in which every eligible recording was moved into 'uploaded',
\* performs no rename, no tag write, no upload and no move.
C1_SecondRunIdle ==
    (/\ runs >= 2 /\ prev.finished /\ prev.archived
     /\ prev.cwd = cwd /\ prev.recursive = recursive)
    => \A e \in events :
           /\ e.op \notin {"tag", "move"} \cup UploadOps
           /\ e.op = "rename" => e.src = e.path

\* C2: a discovered recording that lies inside 'uploaded' is only logged as
\* pre-existing: nothing else is done to it.
C2_UploadedOnlyIgnored ==
    \A e \in events : InPostFolder(e.src) => e.op = "ignore"

\* C3: for a recording that needs renaming the verdict is 'eligible' exactly
\* when the confidence is DIRECTORY (1), not for FAILED (0) or CONTENT (2);
\* a recording whose verdict is 'not eligible' is not opened for tagging,
\* uploaded or moved in that run, and the pass leaves it in its directory.
C3_EligibilityGate ==
    /\ \A f \in files :
           is_rename_necessary(f.name) =>
               LET res == standard_rename(files, bags, PathOf(f))
               IN  /\ res.status \in {FAILED, DIRECTORY, CONTENT}
                   /\ res.to_upload <=> res.status = DIRECTORY
    /\ \A e \in events :
           e.op = "skip" =>
               /\ ~\E x \in events :
                      /\ x.rec = e.rec
                      /\ x.op \in {"eligible", "tag", "tagfail", "move"}
                                     \cup UploadOps
               /\ e.path.dir = e.src.dir
               /\ \A f \in files : f.rec = e.rec => PathOf(f) = e.path
               /\ e.it = i - 1 =>
                      /\ pc \in {"loop", "done"}
                      /\ Exists(files, e.path)
                      /\ RecAt(files, e.path) = e.rec

\* a recording identified by its contents only was renamed and skipped
C3_Witness ==
    \E e \in events :
        /\ e.op = "skip" /\ e.it = i - 1
        /\ e.path.name[1] = "buoy" /\ e.path.name[2] = "unknownname"
        /\ Exists(files, e.path)

\* C4: a recording is moved into 'uploaded' only if, in the same pass of
\* the same run, its tagging completed and its upload returned 200; not
\* after a skip, a tagging failure or a failed upload.
C4_MoveOnlyAfterUpload ==
    LET uploaded_ok(it, r) ==
            /\ \E t \in events : t.it = it /\ t.op = "tag" /\ t.rec = r
            /\ \E u \in events : u.it = it /\ u.op = "upload" /\ u.rec = r
            /\ ~\E x \in events :
                   /\ x.it = it
                   /\ x.op \in {"skip", "tagfail", "uploadfail", "uploadraise"}
    IN  /\ \A m \in events : m.op = "move" => uploaded_ok(m.it, m.rec)
        /\ pc = "move" => uploaded_ok(i - 1, RecAt(files, bagpath))

\* a recording was moved into 'uploaded'
C4_Witness ==
    \E m \in events :
        /\ m.op = "move"
        /\ Exists(files, m.path)
        /\ m.path.dir = m.src.dir \o <<post_folder>>

\* C5: a recording whose upload returned a status other than 200 keeps its
\* name and directory for the rest of the run (as long as its file exists),
\* is not uploaded again and is not moved in the same run, and the driver
\* goes on with the next recording.
C5_FailedUploadIsFinal ==
    \A e \in events :
        e.op = "uploadfail" =>
            /\ e.path = e.src
            /\ \A f \in files : f.rec = e.rec => PathOf(f) = e.path
            /\ ~\E x \in events :
                   /\ x.rec = e.rec /\ x.it > e.it
                   /\ x.op \in {"move"} \cup UploadOps
            /\ e.it = i - 1 => pc \in {"loop", "done"}

\* C6: once the token is obtained, no failure of one recording ends the
\* run early.
C6_BatchNeverAborted ==
    pc = "aborted" => csrf = 0

\* C7: when tagging raises, the store is closed, the pass attempts no upload
\* and no move, the file stays where it is and the loop goes on; the store
\* is closed before an upload starts as well.
C7_TagFailureHandling ==
    /\ pc # "tag" => openBags = {}
    /\ \A e \in events :
           e.op = "tagfail" =>
               /\ ~\E x \in events :
                      x.it = e.it /\ x.op \in {"tag", "move"} \cup UploadOps
               /\ e.it = i - 1 =>
                      /\ pc \in {"loop", "done"}
                      /\ Exists(files, e.path)
                      /\ RecAt(files, e.path) = e.rec

\* tagging raised, the store is closed and another recording is next
C7_Witness ==
    \E e \in events :
        /\ e.op = "tagfail" /\ e.it = i - 1
        /\ e.rec # EmptyRec
        /\ pc = "loop" /\ i <= Len(bagfiles)
        /\ openBags = {}

\* C8: every recording that was on disk is still on disk, under some name.
C8_NoRecordingLost ==
    \A r \in Recs : \E f \in files : f.rec = r

---------------------------------------------------------------------------
(* identify_source on its own: one call on a path and a set of message types *)

\* path components: plain, a remus name, a buoy name, two type strings, and a
\* component that holds a name after a "_"
Components ==
    {<<"data">>, <<"shadow">>, <<"sugar">>, <<"remus">>, <<"buoy">>,
     <<"remus", "shadow">>}

ProbeDirs == UNION {[1..n -> Components] : n \in 0..MaxDirLen}

ProbeNames == {<<"rec1.bag">>, <<"shadow", "recording1.bag">>, <<"shadow.bag">>}

ProbeMsgTypes ==
    SUBSET {vehicle_info["remus"][1], vehicle_info["buoy"][1], "std_msgs/String"}

NoResult == [source |-> <<>>, status |-> FAILED, opened |-> FALSE]

InitIdentify ==
    /\ probe \in [parts : {d \o <<n>> : d \in ProbeDirs, n \in ProbeNames},
                  msg_types : ProbeMsgTypes,
                  called : {FALSE},
                  result : {NoResult}]
    /\ files = {}
    /\ dirs = {}
    /\ bags = <<>>
    /\ openBags = {}
    /\ pc = "idle"
    /\ cwd = DataDir
    /\ recursive = FALSE
    /\ bagfiles = <<>>
    /\ i = 1
    /\ csrf = 0
    /\ bagpath = NoPath
    /\ runs = 0
    /\ prev = NoRun
    /\ events = {}
    /\ lost = {}

\* source, status = identify_source(bag)
IdentifySource ==
    /\ ~probe.called
    /\ probe' = [probe EXCEPT
                    !.called = TRUE,
                    !.result = identify_source(probe.parts, probe.msg_types)]
    /\ UNCHANGED <<files, dirs, bags, openBags, pc, cwd, recursive, bagfiles,
                   i, csrf, bagpath, runs, prev, events, lost>>

NextIdentify == IdentifySource

SpecIdentify == InitIdentify /\ [][NextIdentify]_vars

\* the catalog types that own a path component as one of their names
Owners(c) ==
    {t \in DOMAIN vehicle_info : Len(c) = 1 /\ c[1] \in vehicle_info[t][2]}

\* the positions of the path components that are known vehicle names
NamePositions(parts) == {k \in 1..Len(parts) : Owners(parts[k]) # {}}

\* the catalog types whose content signal is among the message types
SignalTypes(msg_types) ==
    {t \in DOMAIN vehicle_info : vehicle_info[t][1] \in msg_types}

\* the position of a type in the catalog
CatalogIndex(t) == CHOOSE k \in 1..Len(VehicleTypes) : VehicleTypes[k] = t

\* C9 as stated: whichever path component is a known vehicle name, the
\* result is DIRECTORY with that component as the name and its owner as the
\* type, and the contents are not read; without such a component the result
\* is not DIRECTORY.
C9_AnyNameComponent ==
    probe.called =>
        /\ \A k \in NamePositions(probe.parts) :
               /\ probe.result.status = DIRECTORY
               /\ probe.result.source[2] = probe.parts[k][1]
               /\ probe.result.source[1] \in Owners(probe.parts[k])
               /\ ~probe.result.opened
        /\ NamePositions(probe.parts) = {} => probe.result.status # DIRECTORY

\* C9, amended: when path components are known vehicle names, the result is
\* DIRECTORY with the last such component as the name and its owner as the
\* type, and the contents are not read, whatever they hold; a component
\* that is a type string, or holds a name next to other text, is no match.
C9_LastNameComponent ==
    probe.called =>
        LET pos == NamePositions(probe.parts)
        IN  /\ pos # {} =>
                LET last == CHOOSE k \in pos : \A j \in pos : j <= k
                IN  /\ probe.result.status = DIRECTORY
                    /\ probe.result.source
                           = <<CHOOSE t \in Owners(probe.parts[last]) : TRUE,
                               probe.parts[last][1]>>
                    /\ Cardinality(Owners(probe.parts[last])) = 1
                    /\ ~probe.result.opened
            /\ pos = {} => probe.result.status # DIRECTORY

\* a path with a vehicle's name and a type string, of a bag that holds the
\* content signal of another type: identified by the directory
C9_Witness ==
    /\ probe.called
    /\ probe.parts = << <<"remus">>, <<"sugar">>, <<"rec1.bag">> >>
    /\ vehicle_info["remus"][1] \in probe.msg_types
    /\ probe.result.status = DIRECTORY
    /\ probe.result.source = <<"buoy", "sugar">>

\* C10 as stated: without a directory match, a catalog type whose content
\* signal is among the message types is returned with the placeholder name
\* and CONTENT; without any signal the placeholders and FAILED are returned.
C10_AnySignal ==
    (probe.called /\ NamePositions(probe.parts) = {}) =>
        /\ \A t \in SignalTypes(probe.msg_types) :
               /\ probe.result.source = <<t, "unknownname">>
               /\ probe.result.status = CONTENT
        /\ SignalTypes(probe.msg_types) = {} =>
               /\ probe.result.source = <<"unknowntype", "unknownname">>
               /\ probe.result.status = FAILED

\* C10, amended: without a directory match, the catalog type whose content
\* signal is among the message types (the last such type of the catalog
\* when several are) is returned with the placeholder name and CONTENT;
\* without any signal the placeholders and FAILED are returned.
C10_LastSignal ==
    (probe.called /\ NamePositions(probe.parts) = {}) =>
        LET sig == SignalTypes(probe.msg_types)
        IN  /\ probe.result.opened
            /\ sig # {} =>
                LET t == CHOOSE u \in sig :
                             \A v \in sig : CatalogIndex(v) <= CatalogIndex(u)
                IN  /\ probe.result.source = <<t, "unknownname">>
                    /\ probe.result.status = CONTENT
            /\ sig = {} =>
                /\ probe.result.source = <<"unknowntype", "unknownname">>
                /\ probe.result.status = FAILED

\* a bag with the signal of a remus, on a path without a vehicle's name
C10_Witness ==
    /\ probe.called
    /\ NamePositions(probe.parts) = {}
    /\ probe.msg_types = {vehicle_info["remus"][1], "std_msgs/String"}
    /\ probe.result.source = <<"remus", "unknownname">>
    /\ probe.result.status = CONTENT

---------------------------------------------------------------------------
(* is_rename_necessary on its own: one call on a file name *)

\* the longest file name handed to is_rename_necessary, in segments
MaxSegments == 5

\* the segments of the file names: the catalog types, a name of each type
\* and free text
Segments == {"remus", "buoy", "shadow", "sugar", "x"}

\* a file name of the given segments: the last one ends in ".bag"
BagName(segs) ==
    [k \in 1..Len(segs) |-> IF k = Len(segs) THEN segs[k] \o ".bag"
                                              ELSE segs[k]]

ProbeFilenames ==
    {BagName(segs) : segs \in UNION {[1..n -> Segments] : n \in 1..MaxSegments}}

\* the variables of process_bags while a function is called on its own
PipelineIdle ==
    /\ files = {}
    /\ dirs = {}
    /\ bags = <<>>
    /\ openBags = {}
    /\ pc = "idle"
    /\ cwd = DataDir
    /\ recursive = FALSE
    /\ bagfiles = <<>>
    /\ i = 1
    /\ csrf = 0
    /\ bagpath = NoPath
    /\ runs = 0
    /\ prev = NoRun
    /\ events = {}
    /\ lost = {}

InitValidate ==
    /\ probe \in [filename : ProbeFilenames, called : {FALSE}, result : {TRUE}]
    /\ PipelineIdle

\* is_rename_necessary(bag.name)
ValidateName ==
    /\ ~probe.called
    /\ probe' = [probe EXCEPT !.called = TRUE,
                              !.result = is_rename_necessary(probe.filename)]
    /\ UNCHANGED <<files, dirs, bags, openBags, pc, cwd, recursive, bagfiles,
                   i, csrf, bagpath, runs, prev, events, lost>>

NextValidate == ValidateName

SpecValidate == InitValidate /\ [][NextValidate]_vars

\* the known names of the documented catalog, by type
KnownNames(t) ==
    IF t = "remus" THEN {"shadow", "casper", "bullwinkle"}
    ELSE IF t = "buoy" THEN {"sugar", "skipper", "shrew"}
    ELSE {}

\* C11: is_rename_necessary returns False exactly when the file name has 3
\* or 4 segments, segment 0 is a catalog type and segment 1 is one of that
\* type's names; it returns True for every other segment count; the
\* segments after the first two do not affect the result.
C11_ValidatorCharacterised ==
    probe.called =>
        LET f == probe.filename
        IN  /\ probe.result = FALSE
                   <=> /\ Len(f) \in {3, 4}
                       /\ f[1] \in {"remus", "buoy"}
                       /\ f[2] \in KnownNames(f[1])
            /\ Len(f) \notin {3, 4} => probe.result = TRUE
            /\ Len(f) > 2 =>
                   \A rest \in [1..(Len(f) - 2) -> Segments] :
                       is_rename_necessary(BagName(<<f[1], f[2]>> \o rest))
                           = probe.result

\* a name of four segments with a catalog type and one of its names, whose
\* other segments are a type and free text, was accepted
C11_Witness ==
    /\ probe.called
    /\ probe.filename = <<"buoy", "sugar", "remus", "x.bag">>
    /\ probe.result = FALSE

---------------------------------------------------------------------------
(* identify_date on its own: one call on a start time *)

\* the number of days the start times span
MaxDays == 7

\* bag.get_start_time() of the recordings: around the end of 2023, at the
\* first and the last hour, minute and second of a day
StartTimes ==
    {1703894400 + d * 86400 + h * 3600 + m * 60 + sec :
        d \in 0..MaxDays, h \in {0, 23}, m \in {0, 59}, sec \in {0, 59}}

InitDate ==
    /\ probe \in [t : StartTimes, called : {FALSE}, result : {""}]
    /\ PipelineIdle

\* identify_date(bag)
IdentifyDate ==
    /\ ~probe.called
    /\ probe' = [probe EXCEPT !.called = TRUE,
                              !.result = identify_date(localtime(probe.t))]
    /\ UNCHANGED <<files, dirs, bags, openBags, pc, cwd, recursive, bagfiles,
                   i, csrf, bagpath, runs, prev, events, lost>>

NextDate == IdentifyDate

SpecDate == InitDate /\ [][NextDate]_vars

\* C12: the token identify_date returns is made of six fields joined by
\* "-": year, month, day, hour, minute and second of the local start time,
\* and nothing follows the seconds.
C12_SixFields ==
    probe.called =>
        LET st == localtime(probe.t)
        IN  probe.result
                = ToString(st[1]) \o "-" \o ToString(st[2]) \o "-"
                  \o ToString(st[3]) \o "-" \o ToString(st[4]) \o "-"
                  \o ToString(st[5]) \o "-" \o ToString(st[6])

---------------------------------------------------------------------------
(* Properties of standard_rename within process_bags *)

\* the verdicts of standard_rename in the history
Verdicts == {"eligible", "skip"}

\* C13: whenever the validator rejects the name of a recording, whatever
\* the confidence and the verdict are, standard_rename renames the file
\* within its directory to <identified source>_<timestamp>.bag and returns
\* that path; the file is there when standard_rename returns.
C13_UnconditionalRename ==
    \A e \in events :
        (e.op \in Verdicts /\ is_rename_necessary(e.src.name)) =>
            LET content == BagOf(bags, e.rec)
                id == identify_source(Parts(e.src), content.msg_types)
            IN  /\ id.status \in {FAILED, DIRECTORY, CONTENT}
                /\ e.path.dir = e.src.dir
                /\ e.path.name
                       = id.source \o <<identify_date(content.start) \o ".bag">>
                /\ \E x \in events :
                       /\ x.it = e.it /\ x.op = "rename"
                       /\ x.src = e.src /\ x.path = e.path /\ x.rec = e.rec
                /\ (e.it = i - 1 /\ (pc = "open" \/ e.op = "skip")) =>
                       /\ Exists(files, e.path)
                       /\ RecAt(files, e.path) = e.rec
                       /\ e.path # e.src => ~Exists(files, e.src)
                       /\ bagpath = e.path

\* one run renamed a recording identified by its contents and a recording
\* that could not be identified, both found not eligible and left in place
C13_Witness ==
    \E a, b \in events :
        /\ a.op = "skip" /\ b.op = "skip"
        /\ a.path.name[1] = "unknowntype" /\ a.path # a.src
        /\ b.path.name[1] = "buoy" /\ b.path.name[2] = "unknownname"
        /\ b.path # b.src /\ b.path.dir = b.src.dir
        /\ Exists(files, a.path) /\ Exists(files, b.path)
        /\ \E x \in events : x.it = b.it /\ x.op = "rename"

---------------------------------------------------------------------------
(* Properties of the session token *)

\* C14: in every run the token is fetched once, before any recording is
\* renamed, tagged, uploaded or moved, and every upload of the run is made
\* with that token; when fetching it fails the run ends and no recording
\* has been renamed, modified or moved.
C14_TokenBeforeMutation ==
    /\ [](/\ pc = "token" => (csrf = 0 /\ events = {})
          /\ \A e \in events : csrf # 0 /\ e.csrf = csrf
          /\ (pc = "aborted" /\ csrf = 0) => events = {})
    /\ [][/\ csrf' # csrf =>
                 \/ pc = "token" /\ pc' = "loop" /\ csrf = 0 /\ csrf' # 0
                 \/ pc' = "token" /\ csrf' = 0
          /\ (files' # files \/ bags' # bags \/ dirs' # dirs) =>
                 (csrf # 0 /\ csrf' = csrf)
          /\ (pc = "token" /\ pc' = "aborted") =>
                 UNCHANGED <<files, dirs, bags, events>>]_vars

\* two recordings were uploaded in one run, both with the token of the run
C14_Witness ==
    \E a, b \in events :
        /\ a.op = "upload" /\ b.op \in UploadOps
        /\ a.it # b.it
        /\ a.csrf = csrf /\ b.csrf = csrf /\ csrf # 0

---------------------------------------------------------------------------
(* tag_this_bag on its own: one call on a bag *)

\* a record that an earlier call left on /metadata
OldRecord == [topic |-> "/metadata", data |-> << <<"vehicle", "remus">> >>,
              t |-> <<Epoch0 + 60, 0>>]

\* bags that start at a whole second or within one, and end within the
\* same second, at the next, or a minute later
ProbeBags ==
    {[t0 |-> t0, start |-> localtime(t0[1]), end |-> end,
      msg_types |-> b.msg_types, status |-> b.status, metadata |-> md] :
        t0 \in {<<Epoch0, 0>>, <<Epoch0, 300000000>>},
        end \in {<<Epoch0, 300000000>>, <<Epoch0, 700000000>>,
                 <<Epoch0 + 1, 0>>, <<Epoch0 + 60, 0>>,
                 <<Epoch0 + 60, 500000000>>},
        b \in Profiles,
        md \in {<<>>, <<OldRecord>>}}

ProbeTags == << <<"vehicle", "buoy">>, <<"name", "sugar">> >>

InitTag ==
    /\ probe \in [bag : ProbeBags, called : {FALSE}, result : {EmptyBag}]
    /\ PipelineIdle

\* tag_this_bag(bag, tags)
TagThisBag ==
    /\ ~probe.called
    /\ probe' = [probe EXCEPT !.called = TRUE,
                              !.result = tag_this_bag(probe.bag, ProbeTags)]
    /\ UNCHANGED <<files, dirs, bags, openBags, pc, cwd, recursive, bagfiles,
                   i, csrf, bagpath, runs, prev, events, lost>>

NextTag == TagThisBag

SpecTag == InitTag /\ [][NextTag]_vars

\* C15: tag_this_bag appends one record on /metadata, stamped with the end
\* time of the recording, seconds and fraction; the records that were there
\* are unchanged, and so are the start time and the end time.
C15_StampedAtEndTime ==
    probe.called =>
        LET before == probe.bag
            after == probe.result
            n == Len(before.metadata)
        IN  /\ Len(after.metadata) = n + 1
            /\ after.metadata[n + 1].topic = "/metadata"
            /\ after.metadata[n + 1].t = before.end
            /\ SubSeq(after.metadata, 1, n) = before.metadata
            /\ after.status = before.status
            /\ after.t0 = before.t0
            /\ after.start = before.start
            /\ after.end = before.end

---------------------------------------------------------------------------
(* hard_rename.py *)

\* the loop of hard_rename over the listing of thisdir.glob("*.bag"): each
\* file is renamed to f"{PLATFORM_TYPE}_{PLATFORM_NAME}_{file.name}", a path
\* relative to the working directory, which is thisdir
RECURSIVE HardRenameLoop(_, _, _, _, _)
HardRenameLoop(F, listing, k, platform_type, platform_name) ==
    IF k > Len(listing) THEN F
    ELSE LET file == listing[k]
             target == [dir |-> file.dir,
                        name |-> <<platform_type, platform_name>> \o file.name]
         IN  HardRenameLoop(Rename(F, file, target), listing, k + 1,
                            platform_type, platform_name)

\* hard_rename() in thisdir, the glob listing the files in the order given
hard_rename(F, listing, platform_type, platform_name) ==
    HardRenameLoop(F, listing, 1, platform_type, platform_name)

\* the number of bag files in the directory hard_rename runs in
MaxOldFiles == 2

\* the file names before hard_rename: without "_", with one, with two, and
\* names that process_bags or hard_rename built
OldNames ==
    {<<"rec1.bag">>, <<"dive", "3.bag">>, <<"2024", "01", "15.bag">>,
     BuiltName(<<"unknowntype", "unknownname">>, T0),
     <<"buoy", "sugar", "rec1.bag">>}

\* the arguments --type and --name: every name of the catalog with its
\* type, and a name given with the type of another vehicle
PlatformArgs ==
    {<<t, n>> : t \in DOMAIN vehicle_info,
                n \in vehicle_info["remus"][2] \cup {"sugar"}}
    \cup {<<"buoy", n>> : n \in vehicle_info["buoy"][2]}

InitHardRename ==
    /\ \E names \in SUBSET OldNames :
           /\ Cardinality(names) \in 1..MaxOldFiles
           /\ \E number \in [names -> Recs \cup {NumRec + 1}] :
                  /\ \A a, b \in names : a # b => number[a] # number[b]
                  /\ files = {[dir |-> DataDir, name |-> n, rec |-> number[n]] :
                                  n \in names}
    /\ probe \in [args : PlatformArgs, called : {FALSE}]
    /\ dirs = {DataDir}
    /\ bags = <<>>
    /\ openBags = {}
    /\ pc = "idle"
    /\ cwd = DataDir
    /\ recursive = FALSE
    /\ bagfiles = <<>>
    /\ i = 1
    /\ csrf = 0
    /\ bagpath = NoPath
    /\ runs = 0
    /\ prev = NoRun
    /\ events = {}
    /\ lost = {}

\* python hard_rename.py -t PLATFORM_TYPE -n PLATFORM_NAME in the directory cwd
HardRename ==
    /\ ~probe.called
    /\ \E listing \in Orders(Glob(files, cwd, FALSE)) :
           files' = hard_rename(files, listing, probe.args[1], probe.args[2])
    /\ probe' = [probe EXCEPT !.called = TRUE]
    /\ UNCHANGED <<dirs, bags, openBags, pc, cwd, recursive, bagfiles, i, csrf,
                   bagpath, runs, prev, events, lost>>

NextHardRename == HardRename

SpecHardRename == InitHardRename /\ [][NextHardRename]_vars

\* C16: after hard_rename with a catalog type and a name of that type, the
\* validator accepts the name of every file it renamed, whatever the old
\* name was, so process_bags does not rename the file again.
C16_HardRenamedAccepted ==
    (/\ probe.called
     /\ probe.args[1] \in {"remus", "buoy"}
     /\ probe.args[2] \in KnownNames(probe.args[1]))
    => \A f \in files :
           /\ f.name[1] = probe.args[1] /\ f.name[2] = probe.args[2]
           /\ ~is_rename_necessary(f.name)

\* C17: for a recording whose name the validator accepts, standard_rename
\* identifies nothing and renames nothing (the file system is as it was and
\* the path returned is the path given), the verdict is 'eligible', and the
\* pass goes straight on to open the recording and tag it.
C17_ValidNameLeftAlone ==
    /\ [](/\ \A f \in files :
                 ~is_rename_necessary(f.name) =>
                     LET res == standard_rename(files, bags, PathOf(f))
                     IN  /\ res.to_upload /\ ~res.renamed /\ ~res.opened
                         /\ res.newpath = PathOf(f)
          /\ \A e \in events :
                 (e.op \in Verdicts /\ ~is_rename_necessary(e.src.name)) =>
                     /\ e.op = "eligible"
                     /\ e.path = e.src
                     /\ ~\E x \in events : x.it = e.it /\ x.op = "rename"
                     /\ \/ e.it = i - 1 /\ pc \in {"open", "tag"}
                             /\ bagpath = e.src
                        \/ \E x \in events :
                               /\ x.it = e.it /\ x.op \in {"tag", "tagfail"}
                               /\ x.src = e.src)
    /\ [][(/\ pc = "loop" /\ i <= Len(bagfiles)
           /\ ~is_rename_necessary(bagfiles[i].name))
          => /\ UNCHANGED <<files, dirs, bags, lost>>
             /\ bagpath' = bagfiles[i]
             /\ pc' = "open"]_vars

\* a recording with a valid name of four segments was found eligible under
\* its own name and tagged under it
C17_Witness ==
    \E e, x \in events :
        /\ e.op = "eligible"
        /\ e.src.name = <<"remus", "casper", "msn", "20240101-000000.bag">>
        /\ e.path = e.src
        /\ x.it = e.it /\ x.op = "tag" /\ x.path = e.src
        /\ Exists(files, e.src)

---------------------------------------------------------------------------
(* generate_tags on its own: one call on a validly named bag *)

DeepSample == [in_mission |-> FALSE, depth |-> 12, mission_mode |-> 2]

\* the recordings, with no, one or two samples on /status
TaggedBags ==
    {[b EXCEPT !.status = st] :
        b \in Profiles,
        st \in {<<>>, <<StatusSample>>, <<StatusSample, DeepSample>>}}

\* valid names of three and of four segments, for every name of the catalog
ValidNames ==
    {<<t, n>> \o rest :
        t \in DOMAIN vehicle_info,
        n \in UNION {vehicle_info[u][2] : u \in DOMAIN vehicle_info},
        rest \in {<<"rec1.bag">>, <<"msn", "20240101-000000.bag">>}}

InitTags ==
    /\ probe \in [bagname : {f \in ValidNames : ~is_rename_necessary(f)},
                  bag : TaggedBags,
                  called : {FALSE},
                  result : {[raised |-> FALSE, tags |-> <<>>]}]
    /\ PipelineIdle

\* tags = generate_tags(bag)
GenerateTags ==
    /\ ~probe.called
    /\ probe' = [probe EXCEPT
                    !.called = TRUE,
                    !.result = generate_tags(probe.bagname, probe.bag)]
    /\ UNCHANGED <<files, dirs, bags, openBags, pc, cwd, recursive, bagfiles,
                   i, csrf, bagpath, runs, prev, events, lost>>

NextTags == GenerateTags

SpecTags == InitTags /\ [][NextTags]_vars

\* the keys of a tag set, and the value of a key
TagKeys(tags) == {tags[k][1] : k \in 1..Len(tags)}
TagValue(tags, key) == tags[CHOOSE k \in 1..Len(tags) : tags[k][1] = key][2]

\* C18: for every validly named recording, a remus recording without a
\* sample on /status included, generate_tags returns a tag set with the
\* keys vehicle, name, date/time and year; vehicle and name are the first
\* two segments of the file name and year is the first four characters of
\* date/time.
C18_TagsTotal ==
    probe.called =>
        LET tags == probe.result.tags
            st == probe.bag.start
        IN  /\ ~probe.result.raised
            /\ {"vehicle", "name", "date/time", "year"} \subseteq TagKeys(tags)
            /\ TagValue(tags, "vehicle") = probe.bagname[1]
            /\ TagValue(tags, "name") = probe.bagname[2]
            /\ st[1] \in 1000..9999
            /\ TagValue(tags, "year") = ToString(st[1])
            /\ TagValue(tags, "date/time")
                   = TagValue(tags, "year") \o "-"
                     \o JoinDash(SubSeq(st, 2, 7))

---------------------------------------------------------------------------
(* standard_rename on its own: two calls in a row on one bag file *)

\* the file: in any of the probe directories, under a raw or a valid name,
\* holding any of the recordings
InitRename ==
    /\ \E d \in ProbeDirs, b \in Profiles,
          n \in ProbeNames \cup {<<"buoy", "sugar", "rec1.bag">>} :
           /\ files = {[dir |-> d, name |-> n, rec |-> 1]}
           /\ dirs = {d}
           /\ bags = [r \in {1} |-> b]
           /\ probe = [path |-> [dir |-> d, name |-> n], results |-> <<>>]
    /\ openBags = {}
    /\ pc = "idle"
    /\ cwd = DataDir
    /\ recursive = FALSE
    /\ bagfiles = <<>>
    /\ i = 1
    /\ csrf = 0
    /\ bagpath = NoPath
    /\ runs = 0
    /\ prev = NoRun
    /\ events = {}
    /\ lost = {}

\* to_upload, newpath = standard_rename(bag), as one run calls it on the
\* file and a later run on the file the first left
StandardRename ==
    /\ Len(probe.results) < 2
    /\ LET res == standard_rename(files, bags, probe.path)
       IN  /\ files' = IF res.renamed
                       THEN Rename(files, probe.path, res.newpath)
                       ELSE files
           /\ probe' = [path |-> res.newpath,
                        results |-> Append(probe.results, res)]
    /\ UNCHANGED <<dirs, bags, openBags, pc, cwd, recursive, bagfiles, i, csrf,
                   bagpath, runs, prev, events, lost>>

NextRename == StandardRename

SpecRename == InitRename /\ [][NextRename]_vars

\* C19: when standard_rename renames a recording with confidence
\* DIRECTORY, the validator accepts the name it built, the name segment is
\* one of the known names of the type segment, and a later call leaves the
\* file and its name alone.
C19_DirectoryNameRoundTrip ==
    (/\ Len(probe.results) >= 1
     /\ probe.results[1].renamed
     /\ probe.results[1].status = DIRECTORY)
    => LET built == probe.results[1].newpath
       IN  /\ ~is_rename_necessary(built.name)
           /\ built.name[1] \in {"remus", "buoy"}
           /\ built.name[2] \in KnownNames(built.name[1])
           /\ Len(built.name) = 3
           /\ Len(probe.results) = 2 =>
                  /\ ~probe.results[2].renamed
                  /\ probe.results[2].to_upload
                  /\ probe.results[2].newpath = built
                  /\ files = {[dir |-> built.dir, name |-> built.name,
                               rec |-> 1]}

\* a raw recording under .../sugar/ was named buoy_sugar_<timestamp>.bag
\* by the first call and left under that name by the second
C19_Witness ==
    /\ Len(probe.results) = 2
    /\ probe.results[1].renamed
    /\ probe.results[1].status = DIRECTORY
    /\ probe.path.name[1] = "buoy" /\ probe.path.name[2] = "sugar"
    /\ Exists(files, probe.path)
    /\ ~probe.results[2].renamed

---------------------------------------------------------------------------
(* Properties of tagging across runs *)

\* C20: over all runs, a run after a failed upload included, a recording
\* gets at most one record on /metadata, and every recording in 'uploaded'
\* carries exactly one.
C20_AtMostOneMetadata ==
    /\ \A r \in Recs : Len(bags[r].metadata) <= 1
    /\ \A f \in files :
           (InPostFolder(PathOf(f)) /\ f.rec \in Recs) =>
               Len(bags[f.rec].metadata) = 1

====
